---- MODULE Spec2Model ----
(***************************************************************************)
(* sqliteORM: field validation, DDL compilation and migration application. *)
(* The model follows src/orm/orm.py, the module example.py and the tests   *)
(* import.  Python values are tagged records, strings are TLC strings and  *)
(* identifiers (class and attribute names) are sequences of characters so  *)
(* that str.lower() is computed character by character.                    *)
(***************************************************************************)
EXTENDS Integers, Sequences, FiniteSets, TLC

VARIABLES
    db_instance,   \* SingletonDBManagerMeta._instance
    connections,   \* the sqlite3 connections opened so far, by handle
    store,         \* the tables committed in each database file
    mm_instance,   \* SingletonMigrationManager._instance
    last           \* the most recent call: its arguments and its outcome

vars == <<db_instance, connections, store, mm_instance, last>>

----------------------------------------------------------------------------
(* Bounds of the model *)

\* longest list of models handed to MigrationManager
MaxModels == 2
\* most attributes in the body of a model class whose compilation is tried
MaxAttrs == 2
\* largest max_length tried, next to the 566 of the tests
MaxLengthTried == 257

----------------------------------------------------------------------------
(* Python values *)

PyNone == [type |-> "NoneType", val |-> "None"]
PyInt(n) == [type |-> "int", val |-> n]
PyStr(s) == [type |-> "str", val |-> s]
PyBool(b) == [type |-> "bool", val |-> b]
PyFloat(n) == [type |-> "float", val |-> n]

\* bool(v)
Truthy(v) ==
    CASE v.type = "NoneType" -> FALSE
      [] v.type = "str" -> v.val # ""
      [] v.type = "bool" -> v.val
      [] OTHER -> v.val # 0

\* isinstance(v, int): bool is a subclass of int
IsInstanceInt(v) == v.type \in {"int", "bool"}

\* the integer an int or bool compares as
IntOf(v) == IF v.type = "bool" THEN (IF v.val THEN 1 ELSE 0) ELSE v.val

\* str(v), as an f-string renders it
PyFormat(v) ==
    CASE v.type = "NoneType" -> "None"
      [] v.type = "str" -> v.val
      [] v.type = "bool" -> (IF v.val THEN "True" ELSE "False")
      [] v.type = "float" -> ToString(v.val) \o ".0"
      [] OTHER -> ToString(v.val)

\* str.lower() on one character
LowerChar(c) ==
    CASE c = "A" -> "a" [] c = "B" -> "b" [] c = "C" -> "c" [] c = "D" -> "d"
      [] c = "E" -> "e" [] c = "F" -> "f" [] c = "G" -> "g" [] c = "H" -> "h"
      [] c = "I" -> "i" [] c = "J" -> "j" [] c = "K" -> "k" [] c = "L" -> "l"
      [] c = "M" -> "m" [] c = "N" -> "n" [] c = "O" -> "o" [] c = "P" -> "p"
      [] c = "Q" -> "q" [] c = "R" -> "r" [] c = "S" -> "s" [] c = "T" -> "t"
      [] c = "U" -> "u" [] c = "V" -> "v" [] c = "W" -> "w" [] c = "X" -> "x"
      [] c = "Y" -> "y" [] c = "Z" -> "z" [] OTHER -> c

\* str.lower() on an identifier
Lower(name) == [i \in DOMAIN name |-> LowerChar(name[i])]

\* the text of an identifier
RECURSIVE Text(_)
Text(name) == IF name = <<>> THEN "" ELSE Head(name) \o Text(Tail(name))

\* sep.join(parts)
RECURSIVE Join(_, _)
Join(sep, parts) ==
    IF parts = <<>> THEN ""
    ELSE IF Len(parts) = 1 THEN parts[1]
    ELSE parts[1] \o sep \o Join(sep, Tail(parts))

----------------------------------------------------------------------------
(* Fields *)

field_mapper ==
    [CharField |-> "VARCHAR", TextField |-> "TEXT", IntegerField |-> "INTEGER",
     DecimalField |-> "DECIMAL", FloatField |-> "NUMERIC",
     DateTimeField |-> "TEXT", BooleanField |-> "INTEGER",
     ImageField |-> "TEXT", FileField |-> "TEXT"]

\* relationship_mapper["PrimaryKey"].format(field_type=...)
PrimaryKeyTemplate(field_type) == field_type \o " NOT NULL PRIMARY KEY"

ErrMaxLengthType ==
    "max_length can't be None or less than 2 characters and it should be an integer!"
ErrMaxLengthLimit ==
    "CharField can not be longer than 255 characters. Use TextField!"
ErrPrimaryKey ==
    "When using primary_key=True, do not set anything other than max_length"
ErrUniqueDefault ==
    "If using CharField as unique you can't give a default value"
ErrNeedsDefault ==
    "If null is False and primary_key=False, then it needs a default value"

\* the outcome of a constructor: an object, or the error it raised
Built(obj) == [ok |-> TRUE, obj |-> obj, error |-> ""]
Raised(msg) == [ok |-> FALSE, obj |-> PyNone, error |-> msg]

\* Field.__init__
FieldInit(cls, primary_key, unique, null) ==
    [kind |-> "Field", cls |-> cls, primary_key |-> primary_key,
     unique |-> unique, null |-> null, max_length |-> PyNone,
     default |-> PyNone]

\* _check_max_length_and_type comparing with < 1 where the code has <= 1
_check_max_length_off_by_one(self) ==
    IF (~IsInstanceInt(self.max_length))
       \/ self.max_length.type = "NoneType"
       \/ IntOf(self.max_length) < 1
    THEN ErrMaxLengthType
    ELSE ""

\* CharField._check_max_length_and_type: the error raised, "" when none
_check_max_length_and_type(self) ==
    IF (~IsInstanceInt(self.max_length))
       \/ self.max_length.type = "NoneType"
       \/ IntOf(self.max_length) <= 1
    THEN ErrMaxLengthType
    ELSE ""

\* CharField._check_max_length_limit
_check_max_length_limit(self) ==
    IF IntOf(self.max_length) > 255 THEN ErrMaxLengthLimit ELSE ""

\* two steps in program order: the error of the first when it raises,
\* otherwise the outcome of the second
FirstError(error, next) == IF error # "" THEN error ELSE next

\* a constructor step that raised `error`, or returned with the object `self`
Outcome(error, self) == IF error # "" THEN Raised(error) ELSE Built(self)

\* the rest of a constructor after a step that may have raised `error`
AndThen(error, rest) == IF error # "" THEN Raised(error) ELSE rest

\* CharField._basic_checks: the two checks in list order, the first error wins
_basic_checks(self) ==
    FirstError(_check_max_length_and_type(self), _check_max_length_limit(self))

\* _primary_key_checks testing the default for truth where the code tests
\* it against None
_primary_key_checks_truthy_default(self) ==
    IF self.primary_key
       /\ (self.null \/ Truthy(self.default) \/ self.unique)
    THEN ErrPrimaryKey
    ELSE ""

\* CharField._primary_key_checks
_primary_key_checks(self) ==
    IF self.primary_key
       /\ (self.null \/ self.default.type # "NoneType" \/ self.unique)
    THEN ErrPrimaryKey
    ELSE ""

\* CharField._unique_constraint_checks: the error, or self with null forced
_unique_constraint_checks(self) ==
    IF self.unique /\ Truthy(self.default)
    THEN Raised(ErrUniqueDefault)
    ELSE Built([self EXCEPT !.null = TRUE])

\* _check_for_default_val accepting every default that is not None
_check_for_default_val_none_only(self) ==
    IF (~self.null) /\ self.default.type = "NoneType"
    THEN ErrNeedsDefault
    ELSE ""

\* CharField._check_for_default_val
_check_for_default_val(self) ==
    IF (~self.null) /\ (~Truthy(self.default)) THEN ErrNeedsDefault ELSE ""

\* the three rules with the unique rule tried before the primary-key rule
CharFieldRules_unique_first(self) ==
    IF self.unique THEN _unique_constraint_checks(self)
    ELSE IF self.primary_key THEN Outcome(_primary_key_checks(self), self)
    ELSE IF ~self.null THEN Outcome(_check_for_default_val(self), self)
    ELSE Built(self)

\* CharField.__init__ after _basic_checks: one of the three rules
CharFieldRules(self) ==
    IF self.primary_key THEN Outcome(_primary_key_checks(self), self)
    ELSE IF self.unique THEN _unique_constraint_checks(self)
    ELSE IF ~self.null THEN Outcome(_check_for_default_val(self), self)
    ELSE Built(self)

\* CharField.__init__ on the attributes it has assigned
CharFieldChecks(self) == AndThen(_basic_checks(self), CharFieldRules(self))

\* CharField.__init__
CharField(max_length, primary_key, unique, null, default) ==
    CharFieldChecks([FieldInit("CharField", primary_key, unique, null)
                        EXCEPT !.max_length = max_length, !.default = default])

check_null(self) == IF ~self.null THEN " NOT NULL" ELSE ""
check_primary_key(self) == IF self.primary_key THEN " PRIMARY KEY" ELSE ""
check_unique(self) == IF self.unique THEN " UNIQUE" ELSE ""
\* check_default emitting the clause for every default that is not None
check_default_not_none(self) ==
    IF self.default.type # "NoneType"
    THEN " DEFAULT '" \o PyFormat(self.default) \o "'"
    ELSE ""

check_default(self) ==
    IF Truthy(self.default)
    THEN " DEFAULT '" \o PyFormat(self.default) \o "'"
    ELSE ""

\* Field.remaning_definition: the check_* methods in method_order
remaning_definition(self) ==
    check_null(self) \o check_primary_key(self) \o check_unique(self)
        \o check_default(self)

\* CharField.to_sql
CharField_to_sql(self) ==
    IF self.primary_key
    THEN PrimaryKeyTemplate(field_mapper.CharField \o "("
                                \o PyFormat(self.max_length) \o ")")
    ELSE field_mapper.CharField \o "(" \o PyFormat(self.max_length) \o ")"
             \o remaning_definition(self)

ErrTextPrimaryKey == "TEXT fields cannot be set as Primary Key"
ErrTextUnique == "TEXT fields cannot be set as UNIQUE"
ErrAutoField == "You can't provide any value for AutoField"
ErrIntegerPrimaryKey == "Instead use AutoField as Primary Key"
ErrDecimal == "For Decimal values primary_key or unique cannot be True"
ErrFloat == "For Decimal or Float values primary_key or unique cannot be True"
ErrDateTime == "For DateTimeField primary key or unique cannot be True"
ErrBoolean == "For BooleanField primary key or unique cannot be True"
ErrImage == "For ImageField primary key or unique cannot be True"
ErrFile == "For FileField primary key or unique cannot be True"

\* TextField.__init__
TextField(primary_key, unique, null, default) ==
    IF primary_key THEN Raised(ErrTextPrimaryKey)
    ELSE IF unique THEN Raised(ErrTextUnique)
    ELSE Built([FieldInit("TextField", primary_key, unique, null)
                   EXCEPT !.default = default])

\* TextField.to_sql
TextField_to_sql(self) ==
    "TEXT" \o (IF ~self.null THEN " NOT NULL" ELSE "")
           \o (IF ~Truthy(self.default)
               THEN " DEFAULT '" \o PyFormat(self.default) \o "'"
               ELSE "")

\* AutoField.__init__ with the null test left out
AutoField_null_unchecked(primary_key, unique, null) ==
    IF ~primary_key THEN Raised(ErrAutoField)
    ELSE IF unique THEN Raised(ErrAutoField)
    ELSE Built(FieldInit("AutoField", primary_key, unique, null))

\* AutoField.__init__
AutoField(primary_key, unique, null) ==
    IF ~primary_key THEN Raised(ErrAutoField)
    ELSE IF unique THEN Raised(ErrAutoField)
    ELSE IF null THEN Raised(ErrAutoField)
    ELSE Built(FieldInit("AutoField", primary_key, unique, null))

\* AutoField.to_sql returning relationship_mapper["AutoField"]
AutoField_to_sql_from_mapper(self) ==
    "INTEGER NOT NULL PRIMARY KEY AUTOINCREMENT"

\* AutoField.to_sql
AutoField_to_sql(self) == "INTEGER PRIMARY KEY AUTOINCREMENT"

\* IntegerField.__init__
IntegerField(primary_key, unique, null, default) ==
    IF primary_key THEN Raised(ErrIntegerPrimaryKey)
    ELSE Built([FieldInit("IntegerField", primary_key, unique, null)
                   EXCEPT !.default = default])

\* the last clause of IntegerField, DecimalField and FloatField.to_sql
NumericDefault(self) ==
    IF ~Truthy(self.default)
    THEN " DEFAULT " \o PyFormat(self.default)
    ELSE " DEFAULT NULL"

\* IntegerField.to_sql
IntegerField_to_sql(self) ==
    "INTEGER" \o (IF self.unique THEN " UNIQUE" ELSE "")
              \o (IF ~self.null THEN " NOT NULL" ELSE "")
              \o NumericDefault(self)

\* DecimalField.__init__
DecimalField(primary_key, unique, null, default) ==
    IF primary_key \/ unique THEN Raised(ErrDecimal)
    ELSE Built([FieldInit("DecimalField", primary_key, unique, null)
                   EXCEPT !.default = default])

\* DecimalField.to_sql
DecimalField_to_sql(self) ==
    "DECIMAL" \o (IF ~self.null THEN " NOT NULL" ELSE "")
              \o NumericDefault(self)

\* FloatField.__init__
FloatField(primary_key, unique, null, default) ==
    IF primary_key \/ unique THEN Raised(ErrFloat)
    ELSE Built([FieldInit("FloatField", primary_key, unique, null)
                   EXCEPT !.default = default])

\* FloatField.to_sql
FloatField_to_sql(self) ==
    "NUMERIC" \o (IF ~self.null THEN " NOT NULL" ELSE "")
              \o NumericDefault(self)

\* DateTimeField.__init__: no default attribute is assigned
DateTimeField(primary_key, unique, null) ==
    IF primary_key \/ unique THEN Raised(ErrDateTime)
    ELSE Built(FieldInit("DateTimeField", primary_key, unique, null))

\* DateTimeField.to_sql
DateTimeField_to_sql(self) ==
    "TEXT" \o (IF ~self.null THEN " NOT NULL" ELSE "")

\* BooleanField.__init__
BooleanField(primary_key, unique, null, default) ==
    IF primary_key \/ unique THEN Raised(ErrBoolean)
    ELSE Built([FieldInit("BooleanField", primary_key, unique, null)
                   EXCEPT !.default = default])

\* BooleanField.to_sql
BooleanField_to_sql(self) == "INTEGER DEFAULT " \o PyFormat(self.default)

\* ImageField.__init__: file_path is not kept
ImageField(primary_key, unique, null) ==
    IF primary_key \/ unique THEN Raised(ErrImage)
    ELSE Built(FieldInit("ImageField", primary_key, unique, null))

\* ImageField.to_sql
ImageField_to_sql(self) == "TEXT"

\* FileField.__init__
FileField(primary_key, unique, null) ==
    IF primary_key \/ unique THEN Raised(ErrFile)
    ELSE Built(FieldInit("FileField", primary_key, unique, null))

\* FileField.to_sql
FileField_to_sql(self) == "TEXT"

\* field_obj.to_sql(), dispatched on the class of the field
to_sql(self) ==
    CASE self.cls = "CharField" -> CharField_to_sql(self)
      [] self.cls = "TextField" -> TextField_to_sql(self)
      [] self.cls = "AutoField" -> AutoField_to_sql(self)
      [] self.cls = "IntegerField" -> IntegerField_to_sql(self)
      [] self.cls = "DecimalField" -> DecimalField_to_sql(self)
      [] self.cls = "FloatField" -> FloatField_to_sql(self)
      [] self.cls = "DateTimeField" -> DateTimeField_to_sql(self)
      [] self.cls = "BooleanField" -> BooleanField_to_sql(self)
      [] self.cls = "ImageField" -> ImageField_to_sql(self)
      [] self.cls = "FileField" -> FileField_to_sql(self)

----------------------------------------------------------------------------
(* Model classes *)

\* isinstance(v, Field)
IsField(v) == "kind" \in DOMAIN v /\ v.kind = "Field"

\* one entry of a class body
Attr(name, value) == [name |-> name, value |-> value]

\* a class statement: its name, whether Model is among its bases, the
\* _table_name of its body and the other entries of its __dict__, in
\* declaration order
Class(name, is_model, table_name, attrs) ==
    [kind |-> "class", name |-> name, is_model |-> is_model,
     table_name |-> table_name, attrs |-> attrs]

\* _get_table_name returning cls.__name__ as it is spelled
_get_table_name_as_spelled(cls) ==
    IF Truthy(cls.table_name) THEN cls.table_name.val
    ELSE Text(cls.name)

\* Model._get_table_name
_get_table_name(cls) ==
    IF Truthy(cls.table_name) THEN cls.table_name.val
    ELSE Text(Lower(cls.name))

\* the loop of Model.get_column_details over cls.__dict__.items()
RECURSIVE sql_args(_)
sql_args(attrs) ==
    IF attrs = <<>> THEN <<>>
    ELSE IF IsField(Head(attrs).value)
    THEN <<Join(" ", <<Text(Head(attrs).name), to_sql(Head(attrs).value)>>)>>
             \o sql_args(Tail(attrs))
    ELSE sql_args(Tail(attrs))

\* get_column_details joining with ", " as manager.py's create_table_sql does
get_column_details_spaced(cls) == Join(", ", sql_args(cls.attrs))

\* Model.get_column_details
get_column_details(cls) == Join(",", sql_args(cls.attrs))

----------------------------------------------------------------------------
(* The classes the application declares *)

\* example.py: class User
User ==
    Class(<<"U","s","e","r">>, TRUE, PyStr("user_table"),
          <<Attr(<<"n","a","m","e">>,
                 CharField(PyInt(20), TRUE, FALSE, FALSE, PyNone).obj),
            Attr(<<"f","a","v","_","f","o","o","d">>,
                 CharField(PyInt(150), FALSE, FALSE, TRUE, PyNone).obj)>>)

\* example.py: class Test
Test ==
    Class(<<"T","e","s","t">>, TRUE, PyStr("test_table"),
          <<Attr(<<"t","e","s","t","_","n","a","m","e">>,
                 CharField(PyInt(20), TRUE, FALSE, FALSE, PyNone).obj),
            Attr(<<"t","e","s","t","_","f","o","o","d">>,
                 CharField(PyInt(150), FALSE, FALSE, TRUE, PyNone).obj)>>)

\* a Model without _table_name, with a mixed-case field name and an
\* attribute that is no Field
BlogPost ==
    Class(<<"B","l","o","g","P","o","s","t">>, TRUE, PyNone,
          <<Attr(<<"p","e","r","_","p","a","g","e">>, PyInt(10)),
            Attr(<<"p","o","s","t","T","i","t","l","e">>,
                 CharField(PyInt(50), FALSE, TRUE, FALSE, PyNone).obj),
            Attr(<<"b","o","d","y">>,
                 CharField(PyInt(255), FALSE, FALSE, FALSE, PyStr("n/a")).obj)>>)

\* a Model that declares no Field
Blank == Class(<<"B","l","a","n","k">>, TRUE, PyNone, <<>>)

\* a Model whose unique CharField is given the empty string as default, next
\* to a unique IntegerField with a default
Profile ==
    Class(<<"P","r","o","f","i","l","e">>, TRUE, PyNone,
          <<Attr(<<"n","i","c","k","n","a","m","e">>,
                 CharField(PyInt(30), FALSE, TRUE, FALSE, PyStr("")).obj),
            Attr(<<"a","g","e">>,
                 IntegerField(FALSE, TRUE, TRUE, PyInt(5)).obj)>>)

\* a Model that declares two primary keys
TwoKeys ==
    Class(<<"T","w","o","K","e","y","s">>, TRUE, PyNone,
          <<Attr(<<"i","d","_","a">>,
                 CharField(PyInt(20), TRUE, FALSE, FALSE, PyNone).obj),
            Attr(<<"i","d","_","b">>,
                 CharField(PyInt(20), TRUE, FALSE, FALSE, PyNone).obj)>>)

\* a class that does not inherit Model
Plain ==
    Class(<<"P","l","a","i","n">>, FALSE, PyNone,
          <<Attr(<<"n","a","m","e">>,
                 CharField(PyInt(20), TRUE, FALSE, FALSE, PyNone).obj)>>)

\* an object that is no class
Five == [Class(<<"5">>, FALSE, PyNone, <<>>) EXCEPT !.kind = "object"]

\* the objects of the application's namespace, by name: a list of models
\* holds references to them
Namespace(ref) ==
    CASE ref = "User" -> User
      [] ref = "Test" -> Test
      [] ref = "BlogPost" -> BlogPost
      [] ref = "Blank" -> Blank
      [] ref = "Profile" -> Profile
      [] ref = "TwoKeys" -> TwoKeys
      [] ref = "Plain" -> Plain
      [] ref = "Five" -> Five

ModelClasses == {"User", "Test", "BlogPost", "Blank", "Profile"}
AllEntries == ModelClasses \cup {"TwoKeys", "Plain", "Five"}

\* the entries of the lists the application hands to MigrationManager
ListEntries == {"User", "Test", "BlogPost", "Plain"}

\* the sequences over S of length at most n
SeqsUpTo(S, n) == UNION {[1..k -> S] : k \in 0..n}

PyList(items) == [type |-> "list", items |-> items]
PyTuple(items) == [type |-> "tuple", items |-> items]

\* the arguments MigrationManager is called with
ModelsArgs ==
    {PyList(items) : items \in SeqsUpTo(ListEntries, MaxModels)}
        \cup {PyTuple(<<"User", "Test">>), [type |-> "NoneType", items |-> <<>>]}
        \cup {PyList(<<"Profile">>), PyList(<<"User", "Profile">>)}

----------------------------------------------------------------------------
(* DatabaseSchemaEditor and MigrationManager *)

\* generate_table with a template that lacks the closing semicolon
generate_table_no_semicolon(table_name, definition) ==
    "CREATE TABLE " \o table_name \o " (" \o definition \o ")"

\* DatabaseSchemaEditor.generate_table: sql_create_table.format(...)
generate_table(table_name, definition) ==
    "CREATE TABLE " \o table_name \o " (" \o definition \o ");"

\* issubclass(model, Model); "TypeError" when model is not a class
IsSubclassOfModel(model) ==
    IF model.kind # "class" THEN "TypeError"
    ELSE IF model.is_model THEN "True" ELSE "False"

ErrNotList == "models should be a list of Models"
ErrNotModel == "Make sure you inherit Model when creating Models"
ErrIsSubclass == "issubclass() arg 1 must be a class"

\* the test on a model, extended by a rejection of classes that declare
\* more than one primary key
NotAModel_or_many_keys(ref) ==
    IF IsSubclassOfModel(Namespace(ref)) = "TypeError" THEN ErrIsSubclass
    ELSE IF IsSubclassOfModel(Namespace(ref)) = "False" THEN ErrNotModel
    ELSE IF Cardinality({i \in DOMAIN Namespace(ref).attrs :
                            /\ IsField(Namespace(ref).attrs[i].value)
                            /\ Namespace(ref).attrs[i].value.primary_key}) > 1
    THEN "A Model can declare one primary key only"
    ELSE ""

\* the error of issubclass(model, Model) and of the test on its result
NotAModel(ref) ==
    IF IsSubclassOfModel(Namespace(ref)) = "TypeError" THEN ErrIsSubclass
    ELSE IF IsSubclassOfModel(Namespace(ref)) = "False" THEN ErrNotModel
    ELSE ""

\* table_query of one pass of the loop of _create_migrations
table_query(model) ==
    generate_table(_get_table_name(model), get_column_details(model))

\* compiling that removes the compiled fields from the class
compile_model_consuming(cls) ==
    [statement |-> table_query(cls), cls |-> [cls EXCEPT !.attrs = <<>>]]

\* one compilation of a model, as a pass of _create_migrations performs it:
\* the statement, and the class afterwards, to which _get_table_name,
\* get_column_details, to_sql and generate_table assign nothing
compile_model(cls) == [statement |-> table_query(cls), cls |-> cls]

\* _create_migrations inserting each statement at the front of the schema
RECURSIVE _create_migrations_prepend(_, _)
_create_migrations_prepend(models, schema) ==
    IF models = <<>> THEN Built(schema)
    ELSE AndThen(NotAModel(Head(models)),
                 _create_migrations_prepend(
                     Tail(models),
                     <<table_query(Namespace(Head(models)))>> \o schema))

\* MigrationManager._create_migrations: the loop over self.models, entered
\* with the schema built so far
RECURSIVE _create_migrations(_, _)
_create_migrations(models, schema) ==
    IF models = <<>> THEN Built(schema)
    ELSE AndThen(NotAModel(Head(models)),
                 _create_migrations(
                     Tail(models),
                     Append(schema, table_query(Namespace(Head(models))))))

\* the manager __init__ leaves behind when _create_migrations returned
ManagerBuilt(models, made) ==
    IF made.ok THEN Built([models |-> models, schema |-> made.obj]) ELSE made

\* MigrationManager.__init__
MigrationManagerInit(models) ==
    IF models.type # "list" THEN Raised(ErrNotList)
    ELSE ManagerBuilt(models.items, _create_migrations(models.items, <<>>))

\* the assignment to cls._instance made although the constructor raised
Registered_on_failure(instance, made) ==
    IF made.ok
    THEN [returned |-> made.obj, instance |-> made.obj, raised |-> ""]
    ELSE [returned |-> PyNone, instance |-> [half_built |-> TRUE],
          raised |-> made.error]

\* type.__call__ and the assignment to cls._instance: the instance returned,
\* the instance registered afterwards and the error raised
Registered(instance, made) ==
    IF made.ok
    THEN [returned |-> made.obj, instance |-> made.obj, raised |-> ""]
    ELSE [returned |-> PyNone, instance |-> instance, raised |-> made.error]

\* SingletonMigrationManager.__call__ without the test of cls._instance: every
\* call constructs
MigrationManagerCall_always_new(instance, models) ==
    Registered(instance, MigrationManagerInit(models))

\* SingletonMigrationManager.__call__
MigrationManagerCall(instance, models) ==
    IF instance = PyNone
    THEN Registered(instance, MigrationManagerInit(models))
    ELSE [returned |-> instance, instance |-> instance, raised |-> ""]

----------------------------------------------------------------------------
(* The backing store: sqlite3 behind DataBaseConnector *)

\* database files sqlite3.connect can open, and one it cannot
GoodDbNames == {"test_db.db", "new_db"}
BadDbName == "no_such_dir/test_db.db"
DbNames == GoodDbNames \cup {BadDbName}

ErrCannotOpen == "unable to open database file"
ErrClosed == "Cannot operate on a closed database."
ErrSyntax == "near \")\": syntax error"
ErrExists(table) == "table " \o table \o " already exists"

\* sqlite3.connect(database_name): the error it raises, "" when it opens
SqliteConnect(database_name) ==
    IF database_name \in GoodDbNames THEN "" ELSE ErrCannotOpen

\* a connection handle: its database file, whether it is open, and the
\* tables created on it since its last commit
Connection(target) == [target |-> target, open |-> TRUE, pending |-> {}]

----------------------------------------------------------------------------
(* DataBaseConnector *)

\* DataBaseConnector.connect, on a new object (self._connection is None):
\* the connections afterwards and the error raised
connect(conns, database_name) ==
    IF SqliteConnect(database_name) = ""
    THEN [connections |-> Append(conns, Connection(database_name)),
          raised |-> ""]
    ELSE [connections |-> conns, raised |-> ErrCannotOpen]

\* the object __init__ leaves behind when connect() returned
ConnectorBuilt(database_name, connected) ==
    IF connected.raised = ""
    THEN [made |-> Built([database_name |-> database_name,
                          connection |-> Len(connected.connections)]),
          connections |-> connected.connections]
    ELSE [made |-> Raised(connected.raised),
          connections |-> connected.connections]

\* DataBaseConnector.__init__
DataBaseConnectorInit(conns, database_name) ==
    ConnectorBuilt(database_name, connect(conns, database_name))

\* type.__call__ and the assignment to cls._instance, with the connections
\* the constructor opened
RegisteredConnector(instance, init) ==
    [returned |-> Registered(instance, init.made).returned,
     instance |-> Registered(instance, init.made).instance,
     raised |-> Registered(instance, init.made).raised,
     connections |-> init.connections]

\* SingletonDBManagerMeta.__call__ without the test of cls._instance: every
\* call constructs
DataBaseConnectorCall_always_new(instance, conns, database_name) ==
    RegisteredConnector(instance, DataBaseConnectorInit(conns, database_name))

\* SingletonDBManagerMeta.__call__
DataBaseConnectorCall(instance, conns, database_name) ==
    IF instance = PyNone
    THEN RegisteredConnector(instance,
                             DataBaseConnectorInit(conns, database_name))
    ELSE [returned |-> instance, instance |-> instance, raised |-> "",
          connections |-> conns]

\* connect() giving a closed connection a new handle state
connect_again_reopening(conns, handle) == [conns EXCEPT ![handle].open = TRUE]

\* DataBaseConnector.connect on the registered instance: self._connection is
\* not None, so nothing is opened and the handle is returned as it is
connect_again(conns, handle) == conns

----------------------------------------------------------------------------
(* Statement execution *)

\* the table names and column lists sqlite is asked to parse
TableNames == {_get_table_name(Namespace(c)) : c \in ModelClasses}
ColumnDefs == {get_column_details(Namespace(c)) : c \in ModelClasses}

\* sqlite's reading of a statement: the (table, columns) it declares, if it
\* is a CREATE TABLE statement, with or without the closing semicolon
ParseCreateTable(query) ==
    {td \in TableNames \X ColumnDefs :
        \/ query = "CREATE TABLE " \o td[1] \o " (" \o td[2] \o ")"
        \/ query = "CREATE TABLE " \o td[1] \o " (" \o td[2] \o ");"}

\* what executing a parsed CREATE TABLE does on a connection that sees
\* `tables`: the error raised ("" when none) and the table created
create_table(td, tables) ==
    IF td[2] = "" THEN [error |-> ErrSyntax, created |-> {}]
    ELSE IF td[1] \in tables
    THEN [error |-> ErrExists(td[1]), created |-> {}]
    ELSE [error |-> "", created |-> {td[1]}]

\* what executing a statement sqlite has read as `parsed` does
execute_parsed(parsed, tables) ==
    IF parsed = {} THEN [error |-> ErrSyntax, created |-> {}]
    ELSE create_table(CHOOSE td \in parsed : TRUE, tables)

\* cursor.execute(query) on a connection that sees `tables`
cursor_execute(tables, query) ==
    execute_parsed(ParseCreateTable(query), tables)

Executed(query) == [ev |-> "execute", query |-> query]
Committed == [ev |-> "commit", query |-> ""]

RECURSIVE exec_loop_commit_once(_, _, _, _)
\* one pass of exec_loop_commit_once, `done` being the outcome of the execute
exec_pass_commit_once(done, committed, pending, schema, trace) ==
    IF done.error # ""
    THEN [raised |-> done.error, committed |-> committed,
          pending |-> pending, trace |-> Append(trace, Executed(Head(schema)))]
    ELSE exec_loop_commit_once(committed, pending \cup done.created,
                               Tail(schema),
                               Append(trace, Executed(Head(schema))))

\* exec_loop with the commit moved behind the loop: one commit per batch
exec_loop_commit_once(committed, pending, schema, trace) ==
    IF schema = <<>>
    THEN [raised |-> "", committed |-> committed \cup pending, pending |-> {},
          trace |-> Append(trace, Committed)]
    ELSE exec_pass_commit_once(
             cursor_execute(committed \cup pending, Head(schema)),
             committed, pending, schema, trace)

RECURSIVE exec_loop_keep_going(_, _, _, _)
\* one pass of exec_loop_keep_going
exec_pass_keep_going(done, committed, pending, schema, trace) ==
    IF done.error # ""
    THEN exec_loop_keep_going(committed, pending, Tail(schema),
                              Append(trace, Executed(Head(schema))))
    ELSE exec_loop_keep_going(committed \cup pending \cup done.created, {},
                              Tail(schema),
                              trace \o <<Executed(Head(schema)), Committed>>)

\* exec_loop with the exception swallowed inside the loop: a failing
\* statement is skipped and the batch goes on
exec_loop_keep_going(committed, pending, schema, trace) ==
    IF schema = <<>>
    THEN [raised |-> "", committed |-> committed, pending |-> pending,
          trace |-> trace]
    ELSE exec_pass_keep_going(
             cursor_execute(committed \cup pending, Head(schema)),
             committed, pending, schema, trace)

RECURSIVE exec_loop(_, _, _, _)
\* exec_pass submitting a failing statement a second time before giving up
exec_pass_retry_once(done, committed, pending, schema, trace) ==
    IF done.error # ""
    THEN [raised |-> done.error, committed |-> committed,
          pending |-> pending,
          trace |-> trace \o <<Executed(Head(schema)), Executed(Head(schema))>>]
    ELSE exec_loop(committed \cup pending \cup done.created, {}, Tail(schema),
                   trace \o <<Executed(Head(schema)), Committed>>)

\* one pass of the loop, `done` being the outcome of cursor.execute(query):
\* the exception leaves the loop, otherwise self._connection.commit()
exec_pass(done, committed, pending, schema, trace) ==
    IF done.error # ""
    THEN [raised |-> done.error, committed |-> committed,
          pending |-> pending, trace |-> Append(trace, Executed(Head(schema)))]
    ELSE exec_loop(committed \cup pending \cup done.created, {}, Tail(schema),
                   trace \o <<Executed(Head(schema)), Committed>>)

\* the loop of DataBaseConnector.exec_create_query over schema: cursor.execute
\* then self._connection.commit() for each query, until one raises
exec_loop(committed, pending, schema, trace) ==
    IF schema = <<>>
    THEN [raised |-> "", committed |-> committed, pending |-> pending,
          trace |-> trace]
    ELSE exec_pass(cursor_execute(committed \cup pending, Head(schema)),
                   committed, pending, schema, trace)

\* exec_create_query on a connection whose cursor() never raises
exec_create_query_unchecked(conn, committed, schema) ==
    exec_loop(committed, conn.pending, schema, <<>>)

\* DataBaseConnector.exec_create_query: self._connection.cursor() raises on a
\* closed connection, before any statement is executed
exec_create_query(conn, committed, schema) ==
    IF ~conn.open
    THEN [raised |-> ErrClosed, committed |-> committed,
          pending |-> conn.pending, trace |-> <<>>]
    ELSE exec_loop(committed, conn.pending, schema, <<>>)

\* the connection object after exec_create_query returned or raised: the
\* method never calls close(), its finally clause only prints
ConnectionAfter_closed_on_error(conn, run) ==
    [conn EXCEPT !.pending = run.pending,
                 !.open = conn.open /\ run.raised = ""]

ConnectionAfter(conn, run) == [conn EXCEPT !.pending = run.pending]

\* apply handing over the schema only while the store has no table
MigrationManager_apply_once(self, conn, committed) ==
    [handed |-> IF committed = {} THEN self.schema ELSE <<>>,
     run |-> exec_create_query(conn, committed,
                               IF committed = {} THEN self.schema ELSE <<>>)]

\* MigrationManager.apply: the schema handed to
\* connection.exec_create_query and what that call does
MigrationManager_apply(self, conn, committed) ==
    [handed |-> self.schema,
     run |-> exec_create_query(conn, committed, self.schema)]

----------------------------------------------------------------------------
(* The calls the application makes *)

Init ==
    /\ db_instance = PyNone
    /\ connections = <<>>
    /\ store = [d \in GoodDbNames |-> {}]
    /\ mm_instance = PyNone
    /\ last = [op |-> "start"]

\* connection = DataBaseConnector(database_name)
NewDataBaseConnector(database_name) ==
    \E call \in {DataBaseConnectorCall(db_instance, connections,
                                       database_name)} :
        /\ db_instance' = call.instance
        /\ connections' = call.connections
        /\ last' = [op |-> "DataBaseConnector", database_name |-> database_name,
                    before |-> db_instance, opened |-> Len(connections),
                    returned |-> call.returned, raised |-> call.raised]
        /\ UNCHANGED <<store, mm_instance>>

\* migration_manager = MigrationManager(models)
NewMigrationManager(models) ==
    \E call \in {MigrationManagerCall(mm_instance, models)} :
        /\ mm_instance' = call.instance
        /\ last' = [op |-> "MigrationManager", models |-> models,
                    before |-> mm_instance, returned |-> call.returned,
                    raised |-> call.raised]
        /\ UNCHANGED <<db_instance, connections, store>>

\* migration_manager.apply(connection=connection)
apply ==
    /\ mm_instance # PyNone
    /\ db_instance # PyNone
    /\ \E conn \in {connections[db_instance.connection]} :
       \E call \in {MigrationManager_apply(mm_instance, conn,
                                           store[conn.target])} :
           /\ store' = [store EXCEPT ![conn.target] = call.run.committed]
           /\ connections' = [connections EXCEPT ![db_instance.connection] =
                                  ConnectionAfter(conn, call.run)]
           /\ last' = [op |-> "apply", schema |-> call.handed,
                       before |-> store[conn.target], was_open |-> conn.open,
                       trace |-> call.run.trace, raised |-> call.run.raised]
    /\ UNCHANGED <<db_instance, mm_instance>>

\* DataBaseConnector.close: connection.close()
close ==
    /\ db_instance # PyNone
    /\ connections' = [connections EXCEPT ![db_instance.connection] =
                           [@ EXCEPT !.open = FALSE, !.pending = {}]]
    /\ last' = [op |-> "close"]
    /\ UNCHANGED <<db_instance, store, mm_instance>>

\* connection.connect() on the connector the application holds
Reconnect ==
    /\ db_instance # PyNone
    /\ connections' = connect_again(connections, db_instance.connection)
    /\ last' = [op |-> "connect", returned |-> db_instance.connection]
    /\ UNCHANGED <<db_instance, store, mm_instance>>

Next ==
    \/ \E database_name \in DbNames : NewDataBaseConnector(database_name)
    \/ \E models \in ModelsArgs : NewMigrationManager(models)
    \/ apply
    \/ close
    \/ Reconnect

Spec == Init /\ [][Next]_vars

----------------------------------------------------------------------------
(* The pure functions, each applied once to an input drawn at the start *)

\* the max_length values of tests/test_fields.py and the integers around
\* the two limits
MaxLengths ==
    {PyNone, PyStr("None"), PyFloat(50), PyBool(TRUE), PyBool(FALSE), PyInt(566)}
        \cup {PyInt(n) : n \in (0 - 1)..MaxLengthTried}
Defaults == {PyNone, PyStr(""), PyStr("x"), PyInt(0)}

CharFieldInputs ==
    [op : {"input"}, fn : {"CharField"}, max_length : MaxLengths,
     primary_key : BOOLEAN, unique : BOOLEAN, null : BOOLEAN,
     default : Defaults]

\* the field classes next to CharField: those whose __init__ takes a default
\* and those whose __init__ takes none
ClassesWithDefault ==
    {"TextField", "IntegerField", "DecimalField", "FloatField", "BooleanField"}
ClassesWithoutDefault ==
    {"AutoField", "DateTimeField", "ImageField", "FileField"}
FieldDefaults == Defaults \cup {PyInt(5)}

FieldInputs ==
    [op : {"input"}, fn : {"Field"}, cls : ClassesWithDefault,
     primary_key : BOOLEAN, unique : BOOLEAN, null : BOOLEAN,
     default : FieldDefaults]
    \cup
    [op : {"input"}, fn : {"Field"}, cls : ClassesWithoutDefault,
     primary_key : BOOLEAN, unique : BOOLEAN, null : BOOLEAN,
     default : {PyNone}]

\* the call cls(primary_key=..., unique=..., null=..., default=...), without
\* the default for the classes that take none
Construct(cls, primary_key, unique, null, default) ==
    CASE cls = "TextField" -> TextField(primary_key, unique, null, default)
      [] cls = "AutoField" -> AutoField(primary_key, unique, null)
      [] cls = "IntegerField" ->
             IntegerField(primary_key, unique, null, default)
      [] cls = "DecimalField" ->
             DecimalField(primary_key, unique, null, default)
      [] cls = "FloatField" -> FloatField(primary_key, unique, null, default)
      [] cls = "DateTimeField" -> DateTimeField(primary_key, unique, null)
      [] cls = "BooleanField" ->
             BooleanField(primary_key, unique, null, default)
      [] cls = "ImageField" -> ImageField(primary_key, unique, null)
      [] cls = "FileField" -> FileField(primary_key, unique, null)

\* class bodies: attribute names, and values that are Fields or not
AttrNames ==
    {<<"n","a","m","e">>, <<"f","a","v","F","o","o","d">>,
     <<"f","a","v","_","f","o","o","d">>, <<"P","e","r","P","a","g","e">>}
AttrValues ==
    {CharField(PyInt(20), TRUE, FALSE, FALSE, PyNone).obj,
     CharField(PyInt(150), FALSE, FALSE, TRUE, PyNone).obj,
     CharField(PyInt(50), FALSE, TRUE, FALSE, PyNone).obj,
     PyInt(10)}
ClassBodies ==
    {attrs \in SeqsUpTo({Attr(n, v) : n \in AttrNames, v \in AttrValues},
                        MaxAttrs) :
        \A i, j \in DOMAIN attrs : i # j => attrs[i].name # attrs[j].name}
ClassNames == {<<"U","s","e","r">>, <<"B","l","o","g","P","o","s","t">>}
TableNameAttrs == {PyNone, PyStr(""), PyStr("user_table"), PyStr("Blog_Posts")}

ModelInputs ==
    {[op |-> "input", fn |-> "Model", cls |-> Class(n, TRUE, t, attrs)] :
        n \in ClassNames, t \in TableNameAttrs, attrs \in ClassBodies}

ManagerInputs ==
    {[op |-> "input", fn |-> "MigrationManagerInit", models |-> PyList(items)] :
        items \in SeqsUpTo(AllEntries, MaxModels)}

InitPure ==
    /\ db_instance = PyNone
    /\ connections = <<>>
    /\ store = [d \in GoodDbNames |-> {}]
    /\ mm_instance = PyNone
    /\ last \in CharFieldInputs \cup FieldInputs \cup ModelInputs
                 \cup ManagerInputs

\* field = CharField(...), then field.to_sql() when it was constructed
CallCharField ==
    /\ last.op = "input" /\ last.fn = "CharField"
    /\ \E made \in {CharField(last.max_length, last.primary_key, last.unique,
                              last.null, last.default)} :
           last' = [op |-> "CharField", max_length |-> last.max_length,
                    primary_key |-> last.primary_key, unique |-> last.unique,
                    null |-> last.null, default |-> last.default,
                    made |-> made,
                    sql |-> IF made.ok THEN to_sql(made.obj) ELSE ""]
    /\ UNCHANGED <<db_instance, connections, store, mm_instance>>

\* field = cls(...) for a class other than CharField, then field.to_sql()
\* when it was constructed
CallField ==
    /\ last.op = "input" /\ last.fn = "Field"
    /\ \E made \in {Construct(last.cls, last.primary_key, last.unique,
                              last.null, last.default)} :
           last' = [op |-> "Field", cls |-> last.cls,
                    primary_key |-> last.primary_key, unique |-> last.unique,
                    null |-> last.null, default |-> last.default,
                    made |-> made,
                    sql |-> IF made.ok THEN to_sql(made.obj) ELSE ""]
    /\ UNCHANGED <<db_instance, connections, store, mm_instance>>

\* cls._get_table_name(), cls.get_column_details() and the statement
\* generate_table makes of them
CallModel ==
    /\ last.op = "input" /\ last.fn = "Model"
    /\ \E compiled \in {compile_model(last.cls)} :
           last' = [op |-> "Model", cls |-> last.cls,
                    table_name |-> _get_table_name(last.cls),
                    column_details |-> get_column_details(last.cls),
                    statement |-> compiled.statement,
                    after |-> compiled.cls]
    /\ UNCHANGED <<db_instance, connections, store, mm_instance>>

\* the same class compiled a second time
CompileAgain ==
    /\ last.op = "Model"
    /\ \E compiled \in {compile_model(last.after)} :
           last' = [op |-> "ModelAgain", cls |-> last.cls,
                    first |-> last.statement,
                    statement |-> compiled.statement,
                    after |-> compiled.cls]
    /\ UNCHANGED <<db_instance, connections, store, mm_instance>>

\* MigrationManager.__init__ on a new object
CallMigrationManagerInit ==
    /\ last.op = "input" /\ last.fn = "MigrationManagerInit"
    /\ last' = [op |-> "MigrationManagerInit", models |-> last.models,
                made |-> MigrationManagerInit(last.models)]
    /\ UNCHANGED <<db_instance, connections, store, mm_instance>>

NextPure ==
    \/ CallCharField \/ CallField \/ CallModel \/ CompileAgain
    \/ CallMigrationManagerInit

SpecPure == InitPure /\ [][NextPure]_vars

----------------------------------------------------------------------------
(* Text of fragments and statements, as the claims read it *)

\* sub occurs in s from position i on
OccursAt(s, sub, i) == SubSeq(s, i, i + Len(sub) - 1) = sub

\* the positions at which sub occurs in s
Occurrences(s, sub) ==
    {i \in 1..(Len(s) - Len(sub) + 1) : OccursAt(s, sub, i)}

Contains(s, sub) == Occurrences(s, sub) # {}

StartsWith(s, sub) == Len(sub) <= Len(s) /\ OccursAt(s, sub, 1)

----------------------------------------------------------------------------
(* Claims about statement execution and the connector (under Spec) *)

\* the table the i-th statement of the manager's schema creates
TableOfStatement(i) == _get_table_name(Namespace(mm_instance.models[i]))

\* the calls a batch makes when its first k statements succeed: execute and
\* commit for each of them, in list order
RECURSIVE CommittedPrefix(_, _)
CommittedPrefix(schema, k) ==
    IF k = 0 THEN <<>>
    ELSE CommittedPrefix(schema, k - 1) \o <<Executed(schema[k]), Committed>>

\* the database file the connector's connection is on
Target == connections[db_instance.connection].target

\* C1: exec_create_query executes the statements of the batch in list order
\* and commits after each one; when statement k+1 fails, statements 1..k
\* stay committed in the store, the failing statement is not committed and
\* no later statement is executed.
C1_InOrderCommitEach ==
    (last.op = "apply" /\ last.was_open) =>
        \E k \in 0..Len(last.schema) :
            /\ (last.raised = "") <=> (k = Len(last.schema))
            /\ last.trace =
                   CommittedPrefix(last.schema, k)
                       \o (IF last.raised = "" THEN <<>>
                           ELSE <<Executed(last.schema[k + 1])>>)
            /\ store[Target] =
                   last.before \cup {TableOfStatement(i) : i \in 1..k}
            /\ connections[db_instance.connection].pending = {}

\* a first batch whose second statement fails: the first stays committed
C1_Witness ==
    /\ last.op = "apply" /\ last.was_open
    /\ last.before = {}
    /\ mm_instance.models = <<"User", "User">>
    /\ last.raised # ""
    /\ Len(last.trace) = 3
    /\ "user_table" \in store[Target]

\* C2: a second apply against a store in which the first apply created all
\* the tables fails on its first statement with the store's "already exists"
\* error, attempts no later statement and leaves the tables unchanged.
C2_SecondApplyFailsFast ==
    (/\ last.op = "apply" /\ last.was_open
     /\ last.schema # <<>>
     /\ \A i \in DOMAIN last.schema : TableOfStatement(i) \in last.before) =>
        /\ last.raised = "table " \o TableOfStatement(1) \o " already exists"
        /\ last.trace = <<Executed(last.schema[1])>>
        /\ store[Target] = last.before

C2_Witness ==
    /\ last.op = "apply" /\ last.was_open
    /\ mm_instance.models = <<"User", "Test">>
    /\ last.before = {"user_table", "test_table"}
    /\ last.raised = "table user_table already exists"
    /\ Len(last.trace) = 1

\* C3: once a DataBaseConnector exists, every later construction call, with
\* the same or another database name, returns that instance, opens no
\* connection and leaves the connection on the first database.
C3_ConnectorSingleton ==
    (last.op = "DataBaseConnector" /\ last.before # PyNone) =>
        /\ last.raised = ""
        /\ last.returned = last.before
        /\ db_instance = last.before
        /\ Len(connections) = last.opened
        /\ Len(connections) = 1
        /\ Target = last.before.database_name

\* a later call that names another database
C3_Witness ==
    /\ last.op = "DataBaseConnector" /\ last.before # PyNone
    /\ last.database_name = "new_db"
    /\ last.before.database_name = "test_db.db"
    /\ last.returned.database_name = "test_db.db"

\* close() has been called on the connector
Closed ==
    /\ db_instance # PyNone
    /\ ~connections[db_instance.connection].open

\* C20: after close() has been called on the connector, every subsequent
\* exec_create_query call fails with an error reporting that the connection
\* is closed, executes no statement, commits nothing and leaves the store
\* unchanged.
C20_ClosedConnectorRejects ==
    [][/\ last'.op = "close" => Closed'
       /\ Closed => Closed'
       /\ (Closed /\ last'.op = "apply") =>
              /\ last'.raised = "Cannot operate on a closed database."
              /\ last'.trace = <<>>
              /\ store' = store]_vars

\* an apply of a manager with statements on the closed connector of a store
\* that has none of their tables
C20_Witness ==
    /\ last.op = "apply"
    /\ Closed
    /\ ~last.was_open
    /\ last.schema # <<>>
    /\ last.before = {}
    /\ last.raised = "Cannot operate on a closed database."
    /\ last.trace = <<>>
    /\ store[Target] = {}

----------------------------------------------------------------------------
(* Claims about MigrationManager construction (under Spec) *)

\* whether models is a list whose entries are all Model subclasses
IsListOfModels(models) ==
    /\ models.type = "list"
    /\ \A i \in DOMAIN models.items :
           /\ Namespace(models.items[i]).kind = "class"
           /\ Namespace(models.items[i]).is_model

\* C4: every MigrationManager construction call whose argument is no list,
\* or a list with an entry that is no Model subclass, fails with an error
\* and yields no manager, whatever calls were made before it.
C4_InvalidArgumentAlwaysFails ==
    (last.op = "MigrationManager" /\ ~IsListOfModels(last.models)) =>
        /\ last.raised # ""
        /\ last.returned = PyNone

\* C5: after a construction from a list of n Models the schema holds n
\* statements, the i-th being the CREATE TABLE statement of the i-th Model
\* of that list; this is so from the construction on, before any apply.
C5_SchemaBuiltAtConstruction ==
    /\ (last.op = "MigrationManager" /\ last.before = PyNone
            /\ last.raised = "") =>
           /\ mm_instance = last.returned
           /\ mm_instance.models = last.models.items
    /\ (mm_instance # PyNone) =>
           /\ Len(mm_instance.schema) = Len(mm_instance.models)
           /\ \A i \in DOMAIN mm_instance.models :
                  mm_instance.schema[i] =
                      generate_table(
                          _get_table_name(Namespace(mm_instance.models[i])),
                          get_column_details(Namespace(mm_instance.models[i])))

\* a manager just constructed from two different models, while no connector
\* exists yet, so that no apply can have run
C5_Witness ==
    /\ last.op = "MigrationManager" /\ last.before = PyNone
    /\ last.raised = ""
    /\ last.models = PyList(<<"BlogPost", "User">>)
    /\ Len(mm_instance.schema) = 2
    /\ db_instance = PyNone

\* C6: every statement of the schema reads
\* CREATE TABLE <effective table name> (<column list>);
C6_StatementForm ==
    (mm_instance # PyNone) =>
        \A i \in DOMAIN mm_instance.schema :
            mm_instance.schema[i] =
                "CREATE TABLE "
                    \o _get_table_name(Namespace(mm_instance.models[i]))
                    \o " ("
                    \o get_column_details(Namespace(mm_instance.models[i]))
                    \o ");"

\* a schema with the statement of a model whose table name is its class name
C6_Witness ==
    /\ mm_instance # PyNone
    /\ mm_instance.models = <<"BlogPost">>
    /\ Len(mm_instance.schema) = 1

IsExecute(event) == event.ev = "execute"
ExecutedQueries(trace) == SelectSeq(trace, IsExecute)

\* C21: after the first successful MigrationManager construction, a later
\* construction call returns the first instance: its models and schema are
\* unchanged, none of the new models is compiled, and a subsequent apply
\* sends only statements of the first schema.
C21_ManagerSingletonFrame ==
    [][mm_instance # PyNone =>
          /\ mm_instance' = mm_instance
          /\ last'.op = "MigrationManager" =>
                 /\ last'.returned = mm_instance
                 /\ last'.raised = ""
          /\ last'.op = "apply" =>
                 \A i \in DOMAIN ExecutedQueries(last'.trace) :
                     /\ i \in DOMAIN mm_instance.schema
                     /\ ExecutedQueries(last'.trace)[i].query =
                            mm_instance.schema[i]
      ]_vars

\* a manager built for [User] and then asked for [Test, BlogPost]: the call
\* returns the manager of [User]
C21_Witness ==
    /\ last.op = "MigrationManager"
    /\ last.before # PyNone
    /\ last.before.models = <<"User">>
    /\ last.models = PyList(<<"Test", "BlogPost">>)
    /\ last.returned = last.before
    /\ mm_instance = last.before
    /\ mm_instance.schema =
           <<"CREATE TABLE user_table (name VARCHAR(20) NOT NULL PRIMARY KEY,fav_food VARCHAR(150));">>

\* the positions that delimit the column fragments of a CREATE TABLE
\* statement: the parenthesis that opens the column list, the commas and
\* the parenthesis before the closing semicolon
Cuts(stmt) ==
    LET lparen == (CHOOSE i \in Occurrences(stmt, " (") :
                      \A j \in Occurrences(stmt, " (") : i <= j) + 1
        rparen == Len(stmt) - 1
    IN  {lparen, rparen} \cup
            {i \in (lparen + 1)..(rparen - 1) : SubSeq(stmt, i, i) = ","}

\* the column fragments of a statement
Fragments(stmt) ==
    {SubSeq(stmt, a + 1, b - 1) :
        <<a, b>> \in {c \in Cuts(stmt) \X Cuts(stmt) :
                        /\ c[1] < c[2]
                        /\ \A k \in Cuts(stmt) : ~(c[1] < k /\ k < c[2])}}

\* C22: in every reachable state each column fragment of each statement
\* handed to the connection stems from a legal constraint combination: no
\* fragment has both PRIMARY KEY and UNIQUE, none has both PRIMARY KEY and
\* DEFAULT, and no VARCHAR fragment has both UNIQUE and DEFAULT.
C22_NoIllegalCombinationInSql ==
    (last.op = "apply") =>
        \A i \in DOMAIN last.schema :
            \A f \in Fragments(last.schema[i]) :
                /\ ~(Contains(f, "PRIMARY KEY") /\ Contains(f, "UNIQUE"))
                /\ ~(Contains(f, "PRIMARY KEY") /\ Contains(f, "DEFAULT"))
                /\ ~(/\ Contains(f, "VARCHAR")
                     /\ Contains(f, "UNIQUE")
                     /\ Contains(f, "DEFAULT"))

\* the statement of Profile, whose unique CharField was given a default,
\* executed on the connection
C22_Witness ==
    /\ last.op = "apply"
    /\ last.was_open
    /\ last.raised = ""
    /\ \E i \in DOMAIN last.schema :
           /\ last.schema[i] =
                  "CREATE TABLE profile (nickname VARCHAR(30) UNIQUE,age INTEGER UNIQUE DEFAULT NULL);"
           /\ Fragments(last.schema[i]) =
                  {"nickname VARCHAR(30) UNIQUE",
                   "age INTEGER UNIQUE DEFAULT NULL"}

\* the handle of the connector's connection
Handle == db_instance.connection

\* C23: apply never modifies the manager's schema or models, and each apply
\* call hands the connection the complete schema, in order: no statement is
\* dropped or de-duplicated between calls.
C23_ApplyReadsSchemaOnly ==
    [][last'.op = "apply" =>
          /\ mm_instance' = mm_instance
          /\ last'.schema = mm_instance.schema
      ]_vars

\* a second apply of a two-statement schema on a store that has both tables
C23_Witness ==
    /\ last.op = "apply"
    /\ Len(mm_instance.schema) = 2
    /\ Cardinality(last.before) = 2
    /\ last.schema = mm_instance.schema
    /\ last.raised # ""

\* the statements of example.py's models
ValidStatements ==
    [user_table |->
         "CREATE TABLE user_table (name VARCHAR(20) NOT NULL PRIMARY KEY,fav_food VARCHAR(150));",
     test_table |->
         "CREATE TABLE test_table (test_name VARCHAR(20) NOT NULL PRIMARY KEY,test_food VARCHAR(150));"]

\* C24: exec_create_query never closes the connection: after any apply,
\* whether it succeeded or failed partway, the connection is still open and a
\* later batch of valid statements can be executed on it; only close()
\* closes it.
C24_ApplyLeavesConnectionOpen ==
    [][(/\ db_instance # PyNone
        /\ connections[Handle].open
        /\ last'.op # "close") =>
           /\ connections'[Handle].open
           /\ last'.op = "apply" =>
                  \A t \in DOMAIN ValidStatements :
                      t \notin store'[Target] =>
                          LET run == exec_create_query(connections'[Handle],
                                                       store'[Target],
                                                       <<ValidStatements[t]>>)
                          IN  /\ run.raised = ""
                              /\ run.committed = store'[Target] \cup {t}
      ]_vars

\* an apply that failed on its second statement, the connection still open
C24_Witness ==
    /\ last.op = "apply"
    /\ last.was_open
    /\ last.raised # ""
    /\ Len(ExecutedQueries(last.trace)) = 2
    /\ connections[Handle].open
    /\ "test_table" \notin store[Target]

\* the table a CREATE TABLE statement names
TableNamed(stmt) ==
    SubSeq(stmt, 14,
           (CHOOSE i \in Occurrences(stmt, " (") :
               \A j \in Occurrences(stmt, " (") : i <= j) - 1)

\* C25: within one apply call each statement is submitted to the store at
\* most once (no retry after a failure), and the error apply raises is
\* exactly the error the store raised for the failing statement.
C25_NoRetryErrorUnchanged ==
    (last.op = "apply" /\ last.was_open) =>
        LET sent == ExecutedQueries(last.trace)
        IN  /\ Len(sent) <= Len(last.schema)
            /\ \A i \in DOMAIN sent : sent[i].query = last.schema[i]
            /\ last.raised = "" => Len(sent) = Len(last.schema)
            /\ last.raised # "" =>
                   /\ sent # <<>>
                   /\ last.trace[Len(last.trace)] = sent[Len(sent)]
                   /\ TableNamed(sent[Len(sent)].query) \in store[Target]
                   /\ last.raised =
                          "table " \o TableNamed(sent[Len(sent)].query)
                              \o " already exists"

\* a second apply of Profile's statement: sent once, sqlite's error raised
C25_Witness ==
    /\ last.op = "apply"
    /\ last.was_open
    /\ last.before = {"profile"}
    /\ Len(last.schema) = 1
    /\ Len(last.trace) = 1
    /\ last.raised = "table profile already exists"

\* C29: a DataBaseConnector or MigrationManager construction that raises
\* registers no instance: _instance stays None, and a later construction
\* call with valid arguments runs the constructor again and returns a fresh,
\* fully built instance.
C29_FailedConstructionRegistersNothing ==
    [][/\ (last'.op = "MigrationManager" /\ last'.raised # "") =>
              /\ mm_instance = PyNone
              /\ mm_instance' = PyNone
       /\ (last'.op = "DataBaseConnector" /\ last'.raised # "") =>
              /\ db_instance = PyNone
              /\ db_instance' = PyNone
              /\ connections' = connections
       /\ (/\ mm_instance = PyNone
           /\ last'.op = "MigrationManager"
           /\ IsListOfModels(last'.models)) =>
              /\ last'.raised = ""
              /\ mm_instance' = last'.returned
              /\ mm_instance'.models = last'.models.items
              /\ Len(mm_instance'.schema) = Len(last'.models.items)
       /\ (/\ db_instance = PyNone
           /\ last'.op = "DataBaseConnector"
           /\ last'.database_name \in {"test_db.db", "new_db"}) =>
              /\ last'.raised = ""
              /\ db_instance' = last'.returned
              /\ db_instance'.database_name = last'.database_name
              /\ Len(connections') = Len(connections) + 1
              /\ connections'[db_instance'.connection].open
              /\ connections'[db_instance'.connection].target =
                     last'.database_name
      ]_vars

\* a MigrationManager call that raised on a list with a class that is no
\* Model, made while a connector exists
C29_Witness ==
    /\ last.op = "MigrationManager"
    /\ last.models = PyList(<<"User", "Plain">>)
    /\ last.raised = "Make sure you inherit Model when creating Models"
    /\ last.returned = PyNone
    /\ mm_instance = PyNone
    /\ db_instance # PyNone

\* C30: once close() has been called the connector can never be used again:
\* every later DataBaseConnector construction returns the same closed
\* instance, connect() does not reopen the connection because the handle is
\* not None, and so every later apply fails.
C30_ClosedForGood ==
    [][Closed =>
          /\ Closed'
          /\ db_instance' = db_instance
          /\ last'.op = "DataBaseConnector" =>
                 /\ last'.returned = db_instance
                 /\ last'.raised = ""
                 /\ connections' = connections
          /\ last'.op = "connect" =>
                 /\ last'.returned = Handle
                 /\ connections' = connections
          /\ last'.op = "apply" =>
                 /\ last'.raised # ""
                 /\ store' = store
      ]_vars

\* connect() called on the closed connector while a manager is waiting to be
\* applied
C30_Witness ==
    /\ last.op = "connect"
    /\ Closed
    /\ last.returned = Handle
    /\ mm_instance # PyNone
    /\ mm_instance.schema # <<>>

----------------------------------------------------------------------------
(* Claims about the pure functions (under SpecPure) *)

\* the column list the specification describes: the Fields of the class in
\* declaration order, each as its lower-cased name and its to_sql()
RECURSIVE LowerCasedEntries(_)
LowerCasedEntries(attrs) ==
    IF attrs = <<>> THEN <<>>
    ELSE IF IsField(Head(attrs).value)
    THEN <<Text(Lower(Head(attrs).name)) \o " " \o to_sql(Head(attrs).value)>>
             \o LowerCasedEntries(Tail(attrs))
    ELSE LowerCasedEntries(Tail(attrs))

\* C8: the column list of a Model holds one entry "<field name lower-cased>
\* <field.to_sql()>" per Field of the class, joined by commas, in declaration
\* order; attributes that are no Fields contribute nothing.
C8_ColumnListLowerCased ==
    (last.op = "Model") =>
        last.column_details = Join(",", LowerCasedEntries(last.cls.attrs))

\* C9: the effective table name is the _table_name override when one is set
\* (a non-empty string) and the class name in lower case otherwise.
C9_EffectiveTableName ==
    (last.op = "Model") =>
        IF last.cls.table_name.type = "str" /\ last.cls.table_name.val # ""
        THEN last.table_name = last.cls.table_name.val
        ELSE /\ last.cls.name = <<"U","s","e","r">> => last.table_name = "user"
             /\ last.cls.name = <<"B","l","o","g","P","o","s","t">> =>
                    last.table_name = "blogpost"
             /\ last.table_name \in {"user", "blogpost"}

\* a class without override whose name has capitals inside
C9_Witness ==
    /\ last.op = "Model"
    /\ last.cls.table_name = PyNone
    /\ last.cls.name = <<"B","l","o","g","P","o","s","t">>
    /\ last.table_name = "blogpost"

\* C10: CharField raises the max_length message when max_length is None, no
\* integer or below 2, the 255 message when it is an integer above 255, and
\* neither of the two for an integer in 2..255.
C10_MaxLengthChecks ==
    (last.op = "CharField") =>
        LET ml == last.max_length
            is_int == ml.type = "int"
        IN  /\ (ml.type = "NoneType" \/ ~is_int \/ (is_int /\ ml.val < 2)) =>
                   /\ ~last.made.ok
                   /\ last.made.error =
                          "max_length can't be None or less than 2 characters and it should be an integer!"
            /\ (is_int /\ ml.val > 255) =>
                   /\ ~last.made.ok
                   /\ last.made.error =
                          "CharField can not be longer than 255 characters. Use TextField!"
            /\ (is_int /\ ml.val >= 2 /\ ml.val <= 255) =>
                   last.made.error \notin
                       {"max_length can't be None or less than 2 characters and it should be an integer!",
                        "CharField can not be longer than 255 characters. Use TextField!"}

\* the 566 of the tests, rejected with the 255 message although the other
\* arguments break the primary-key rule as well
C10_Witness ==
    /\ last.op = "CharField"
    /\ last.max_length = PyInt(566)
    /\ last.primary_key /\ last.null
    /\ ~last.made.ok
    /\ last.made.error =
           "CharField can not be longer than 255 characters. Use TextField!"

\* a max_length CharField accepts: an integer from 2 to 255
ValidMaxLength(ml) == ml.type = "int" /\ ml.val >= 2 /\ ml.val <= 255

\* a CharField call with a valid max_length has been made
CharFieldCalled == last.op = "CharField" /\ ValidMaxLength(last.max_length)

\* C11: a CharField with a valid max_length and primary_key=True fails with
\* the primary-key message whenever null=True or unique=True or a default is
\* supplied (anything but None), and is constructed when none of the three
\* is given.
C11_PrimaryKeyAlone ==
    (CharFieldCalled /\ last.primary_key) =>
        IF last.null \/ last.unique \/ last.default # PyNone
        THEN /\ ~last.made.ok
             /\ last.made.error =
                    "When using primary_key=True, do not set anything other than max_length"
        ELSE last.made.ok

\* a primary key given the empty string as its only extra argument
C11_Witness ==
    /\ CharFieldCalled /\ last.primary_key
    /\ ~last.null /\ ~last.unique /\ last.default = PyStr("")
    /\ ~last.made.ok
    /\ last.made.error =
           "When using primary_key=True, do not set anything other than max_length"

\* C12: a non-primary-key CharField with unique=True fails with the unique
\* message whenever a default is supplied (anything but None), and otherwise
\* is constructed with null set to True whatever null was requested.
C12_UniqueWithoutDefault ==
    (CharFieldCalled /\ ~last.primary_key /\ last.unique) =>
        IF last.default # PyNone
        THEN /\ ~last.made.ok
             /\ last.made.error =
                    "If using CharField as unique you can't give a default value"
        ELSE /\ last.made.ok
             /\ last.made.obj.null = TRUE

\* a default that is a non-empty string
NonEmptyDefault(d) == d.type = "str" /\ d.val # ""

\* C13: a CharField with a valid max_length that is no primary key, not
\* unique and not nullable fails with the needs-a-default message when no
\* non-empty default is given and is constructed when one is given; a
\* nullable one is constructed with or without a default.
C13_NonNullNeedsDefault ==
    (CharFieldCalled /\ ~last.primary_key /\ ~last.unique) =>
        IF last.null THEN last.made.ok
        ELSE IF NonEmptyDefault(last.default) THEN last.made.ok
        ELSE /\ ~last.made.ok
             /\ last.made.error =
                    "If null is False and primary_key=False, then it needs a default value"

\* a non-nullable field given the empty string as default
C13_Witness ==
    /\ CharFieldCalled /\ ~last.primary_key /\ ~last.unique /\ ~last.null
    /\ last.default = PyStr("")
    /\ ~last.made.ok
    /\ last.made.error =
           "If null is False and primary_key=False, then it needs a default value"

\* the text of a default as a fragment quotes it
DefaultText(d) == IF d.type = "str" THEN d.val ELSE ToString(d.val)

\* VARCHAR(n) for the max_length of the call
VarcharOfCall == "VARCHAR(" \o ToString(last.max_length.val) \o ")"

\* C14: for every legal CharField tuple with max_length n, to_sql returns the
\* golden literal of its row: primary key -> VARCHAR(n) NOT NULL PRIMARY KEY;
\* unique without default -> VARCHAR(n) UNIQUE; non-null with default d ->
\* VARCHAR(n) NOT NULL DEFAULT 'd'; nullable without default -> VARCHAR(n);
\* nullable with default d -> VARCHAR(n) DEFAULT 'd'.
C14_GoldenFragments ==
    (CharFieldCalled /\ last.made.ok) =>
        IF last.primary_key
        THEN last.sql = VarcharOfCall \o " NOT NULL PRIMARY KEY"
        ELSE IF last.unique
        THEN last.default = PyNone => last.sql = VarcharOfCall \o " UNIQUE"
        ELSE IF last.default = PyNone
        THEN last.sql = VarcharOfCall
        ELSE IF last.null
        THEN last.sql = VarcharOfCall \o " DEFAULT '"
                            \o DefaultText(last.default) \o "'"
        ELSE last.sql = VarcharOfCall \o " NOT NULL DEFAULT '"
                            \o DefaultText(last.default) \o "'"

\* the tuples the legality table marks illegal for the domains other than
\* Text
MarkedIllegal(cls, primary_key, unique, null) ==
    CASE cls = "IntegerField" -> primary_key
      [] cls = "AutoField" -> (~primary_key) \/ unique \/ null
      [] cls \in {"TextField", "DecimalField", "FloatField", "DateTimeField",
                  "BooleanField", "ImageField", "FileField"} ->
             primary_key \/ unique

\* C15: for every domain other than Text, construction rejects exactly the
\* tuples the legality table marks illegal: LongText, Decimal, Float,
\* DateTime, Boolean, ImagePath and FilePath fail when primaryKey or unique is
\* true, Integer fails when primaryKey is true, AutoIncrementInteger fails
\* when primaryKey is false, unique is true or nullable is true; every other
\* boolean combination is constructed.
C15_OtherDomainsLegality ==
    (last.op = "Field") =>
        (last.made.ok <=>
            ~MarkedIllegal(last.cls, last.primary_key, last.unique, last.null))

\* an AutoField whose only deviation is null=True, rejected
C15_Witness ==
    /\ last.op = "Field" /\ last.cls = "AutoField"
    /\ last.primary_key /\ ~last.unique /\ last.null
    /\ ~last.made.ok
    /\ last.made.error = "You can't provide any value for AutoField"

\* every occurrence of the clause a lies before every occurrence of b
Before(s, a, b) ==
    \A i \in Occurrences(s, a), j \in Occurrences(s, b) : i < j

\* a field of any class has been constructed and compiled
Compiled == last.op \in {"CharField", "Field"} /\ last.made.ok

\* C16: in the fragment compiled for a non-primary-key field of any domain,
\* the constraint clauses that are present follow the SQL type in the order
\* NOT NULL, UNIQUE, DEFAULT: no fragment has UNIQUE before NOT NULL or
\* DEFAULT before UNIQUE.
C16_ClauseOrder ==
    (Compiled /\ ~last.made.obj.primary_key) =>
        /\ Before(last.sql, " NOT NULL", " UNIQUE")
        /\ Before(last.sql, " UNIQUE", " DEFAULT")
        /\ Before(last.sql, " NOT NULL", " DEFAULT")

\* the DEFAULT clause the specification gives a default: quoted for the text
\* domains, a bare literal for the others
DefaultClause(cls, d) ==
    IF cls \in {"CharField", "TextField"}
    THEN " DEFAULT '" \o DefaultText(d) \o "'"
    ELSE " DEFAULT " \o DefaultText(d)

\* C17: for a non-primary-key field of a domain that supports a default, the
\* fragment has a DEFAULT clause if and only if a default was set, and the
\* clause carries the value: DEFAULT '<value>' for Text and LongText,
\* DEFAULT <value> for Integer, Decimal, Float and Boolean.
C17_DefaultClause ==
    (/\ Compiled
     /\ ~last.made.obj.primary_key
     /\ last.made.obj.cls \in {"CharField"} \cup ClassesWithDefault) =>
        IF last.default = PyNone
        THEN ~Contains(last.sql, " DEFAULT")
        ELSE Contains(last.sql, DefaultClause(last.made.obj.cls, last.default))

\* C18: for every constructed non-primary-key field of any domain, the
\* fragment contains NOT NULL if and only if the null attribute of the field
\* is false.
C18_NotNullIffNotNullable ==
    (Compiled /\ ~last.made.obj.primary_key) =>
        (Contains(last.sql, " NOT NULL") <=> ~last.made.obj.null)

\* the SQL type fixed for a domain
SqlTypeOf(cls) ==
    CASE cls = "CharField" -> VarcharOfCall
      [] cls = "TextField" -> "TEXT"
      [] cls = "IntegerField" -> "INTEGER"
      [] cls = "DecimalField" -> "DECIMAL"
      [] cls = "FloatField" -> "NUMERIC"
      [] cls = "DateTimeField" -> "TEXT"
      [] cls = "BooleanField" -> "INTEGER"
      [] cls = "ImageField" -> "TEXT"
      [] cls = "FileField" -> "TEXT"

\* C19: the fragment of any field begins with the SQL type fixed for its
\* domain, and an AutoIncrementInteger field compiles to exactly
\* INTEGER PRIMARY KEY AUTOINCREMENT.
C19_SqlTypePrefix ==
    Compiled =>
        IF last.made.obj.cls = "AutoField"
        THEN last.sql = "INTEGER PRIMARY KEY AUTOINCREMENT"
        ELSE /\ StartsWith(last.sql, SqlTypeOf(last.made.obj.cls))
             /\ \/ last.sql = SqlTypeOf(last.made.obj.cls)
                \/ StartsWith(last.sql, SqlTypeOf(last.made.obj.cls) \o " ")

\* the one legal AutoField, compiled
C19_Witness ==
    /\ last.op = "Field" /\ last.cls = "AutoField"
    /\ last.primary_key /\ ~last.unique /\ ~last.null
    /\ last.made.ok
    /\ last.sql = "INTEGER PRIMARY KEY AUTOINCREMENT"

C27_SeveralPrimaryKeys ==
    (/\ last.op = "MigrationManagerInit"
     /\ last.models.type = "list"
     /\ \A i \in DOMAIN last.models.items :
            last.models.items[i] \in ModelClasses \cup {"TwoKeys"}) =>
        /\ last.made.ok
        /\ \A i \in DOMAIN last.models.items :
               last.models.items[i] = "TwoKeys" =>
                   /\ last.made.obj.schema[i] =
                          "CREATE TABLE twokeys (id_a VARCHAR(20) NOT NULL PRIMARY KEY,id_b VARCHAR(20) NOT NULL PRIMARY KEY);"
                   /\ \A f \in Fragments(last.made.obj.schema[i]) :
                          Contains(f, " PRIMARY KEY")

\* a manager constructed for [User, TwoKeys]
C27_Witness ==
    /\ last.op = "MigrationManagerInit"
    /\ last.models = PyList(<<"User", "TwoKeys">>)
    /\ last.made.ok
    /\ Len(last.made.obj.schema) = 2
    /\ Cardinality(Fragments(last.made.obj.schema[2])) = 2

\* the errors of CharField, by the check that raises them
MaxLengthTypeMessage ==
    "max_length can't be None or less than 2 characters and it should be an integer!"
MaxLengthLimitMessage ==
    "CharField can not be longer than 255 characters. Use TextField!"
PrimaryKeyMessage ==
    "When using primary_key=True, do not set anything other than max_length"
UniqueMessage == "If using CharField as unique you can't give a default value"
NeedsDefaultMessage ==
    "If null is False and primary_key=False, then it needs a default value"

\* C28: CharField runs its checks in a fixed order: max_length type and
\* minimum, then the 255 limit, then exactly one of the primary-key rule (if
\* primary_key), the unique rule (else if unique) or the default-required
\* rule (else if not nullable).  The error raised is that of the earliest
\* failing check, so an invalid max_length yields a max_length message
\* whatever the other arguments are.
C28_CheckOrder ==
    (last.op = "CharField") =>
        IF last.max_length.type \notin {"int", "bool"}
           \/ IntOf(last.max_length) < 2
        THEN last.made.error = MaxLengthTypeMessage
        ELSE IF last.max_length.val > 255
        THEN last.made.error = MaxLengthLimitMessage
        ELSE IF last.primary_key
        THEN last.made.error \in {"", PrimaryKeyMessage}
        ELSE IF last.unique
        THEN last.made.error \in {"", UniqueMessage}
        ELSE IF ~last.null
        THEN last.made.error \in {"", NeedsDefaultMessage}
        ELSE last.made.error = ""

\* a primary key that is unique and has a default: the primary-key rule and
\* the unique rule are both violated, the primary-key message is raised
C28_Witness ==
    /\ CharFieldCalled
    /\ last.primary_key /\ last.unique /\ last.default = PyStr("x")
    /\ last.made.error = PrimaryKeyMessage

====
